---------------------------- MODULE Spec2Model ----------------------------
(***************************************************************************)
(* A model of cblaster's result classes (src/cblaster/classes.py):         *)
(* Hit, Subject, Cluster, Scaffold, Organism and Session, their            *)
(* constructors, the cluster scoring, Scaffold.add_clusters, Session       *)
(* merging, Organism.full_name and the to_dict / from_dict serialisation.  *)
(*                                                                         *)
(* Conventions.                                                            *)
(*  - Python's None is the empty tuple <<>>, a present value v is <<v>>.   *)
(*  - A Python str that the code inspects character by character (a Hit's  *)
(*    subject id) is a sequence of one-character strings.                  *)
(*  - A Python list is a sequence; list positions keep Python's 0-based    *)
(*    numbering, so list position i is element i + 1 of the sequence.      *)
(*  - Every Subject and Cluster object carries its object identity oid,    *)
(*    which no Python comparison reads except "is".                        *)
(*  - A cluster score is kept multiplied by Scale (10000), so that         *)
(*    bitscore / 10000 + n + synteny is the integer                        *)
(*    bitscore + 10000 * (n + synteny).                                    *)
(***************************************************************************)
EXTENDS Integers, Sequences, FiniteSets, TLC

VARIABLES
    call,       \* ClusterSpec: the arguments of the last Cluster(...) call
    cluster,    \* ClusterSpec: what that call produced
    raw,        \* HitSpec: the arguments of the last Hit(...) call
    hit,        \* HitSpec: what that call produced
    scaffold,   \* ScaffoldSpec: the Scaffold object
    status,     \* ScaffoldSpec: how the last call on the Scaffold ended
    operands,   \* MergeSpec: the two Sessions of a merge, left and right
    merged,     \* MergeSpec: what the merge produced
    files,      \* MergeSpec: the persisted Sessions handed to from_files
    loader,     \* MergeSpec: the position and the locals of from_files
    session,    \* LoadSpec: the Session that is serialised
    reloaded,   \* LoadSpec: what from_dict made of the serialised Session
    stored,     \* LoadSpec: a persisted scaffold
    restored,   \* LoadSpec: what Scaffold.from_dict made of it
    organism,   \* NameSpec: the Organism whose full_name is read
    full_name,  \* NameSpec: what the property returned
    persisted,  \* KeySpec: a persisted Session, possibly lacking a key
    parsed      \* KeySpec: what Session.from_dict made of it

clusterVars == <<call, cluster>>

hitVars == <<raw, hit>>

scaffoldVars == <<scaffold, status>>

mergeVars == <<operands, merged, files, loader>>

loadVars == <<session, reloaded, stored, restored>>

nameVars == <<organism, full_name>>

keyVars == <<persisted, parsed>>

vars == <<clusterVars, hitVars, scaffoldVars, mergeVars, loadVars, nameVars,
          keyVars>>

(***************************************************************************)
(* Python values                                                           *)
(***************************************************************************)
None == <<>>

Some(v) == <<v>>

\* Python truthiness of an optional number: None and 0 are falsy.
Truthy(o) == o # None /\ o[1] # 0

Abs(x) == IF x < 0 THEN -x ELSE x

\* list[i] for a position that may be negative; the caller checks InRange.
PyInRange(list, ix) == -Len(list) <= ix /\ ix < Len(list)

PyAt(list, ix) == IF ix < 0 THEN list[Len(list) + ix + 1] ELSE list[ix + 1]

\* The result of a call: a value, or the exception that ended it.
Ok(v) == [ok |-> TRUE, err |-> "", val |-> <<v>>]

Raise(e) == [ok |-> FALSE, err |-> e, val |-> <<>>]

\* A list comprehension over calls: the list of their values, or the
\* exception of the first call that raised.
AllOk(results) ==
    IF \E i \in 1..Len(results) : ~results[i].ok
    THEN Raise(results[CHOOSE i \in 1..Len(results) :
                  /\ ~results[i].ok
                  /\ \A j \in 1..(i - 1) : results[j].ok].err)
    ELSE Ok([i \in 1..Len(results) |-> results[i].val[1]])

\* The call that follows a call: next on its value, or its exception.
Bind(r, next(_)) == IF r.ok THEN next(r.val[1]) ELSE r

\* d.get(key): None for a missing key.
Get(d, key) == IF key \in DOMAIN d THEN d[key] ELSE None

NoCall == [ok |-> FALSE, err |-> "no call", val |-> <<>>]

Min(S) == CHOOSE x \in S : \A y \in S : x <= y

RECURSIVE SumSeq(_)
SumSeq(s) == IF s = <<>> THEN 0 ELSE s[1] + SumSeq(Tail(s))

(***************************************************************************)
(* Hit                                                                     *)
(***************************************************************************)
Lower == {"a","b","c","d","e","f","g","h","i","j","k","l","m",
          "n","o","p","q","r","s","t","u","v","w","x","y","z"}

Upper == {"A","B","C","D","E","F","G","H","I","J","K","L","M",
          "N","O","P","Q","R","S","T","U","V","W","X","Y","Z"}

Digits == {"0","1","2","3","4","5","6","7","8","9"}

\* The character class [A-Za-z0-9\._] of the regular expression.
IsAccessionChar(c) == c \in Lower \cup Upper \cup Digits \cup {".", "_"}

\* pat in s for Python strings.
Contains(s, pat) ==
    \E i \in 1..(Len(s) - Len(pat) + 1) : SubSeq(s, i, i + Len(pat) - 1) = pat

\* The positions where \|([A-Za-z0-9\._]+)\| matches: a pipe, one or more
\* class characters, a pipe.
MatchStarts(s) ==
    {i \in 1..Len(s) :
        /\ s[i] = "|"
        /\ \E j \in (i + 2)..Len(s) :
              /\ s[j] = "|"
              /\ \A k \in (i + 1)..(j - 1) : IsAccessionChar(s[k])}

\* re.search(...).group(1): the text between the pipes of the leftmost match.
MatchGroup(s) ==
    LET i == Min(MatchStarts(s))
        j == Min({k \in (i + 2)..Len(s) : s[k] = "|"})
    IN  SubSeq(s, i + 1, j - 1)

HasMarker(subject) ==
    Contains(subject, <<"g", "b">>) \/ Contains(subject, <<"r", "e", "f">>)

\* Hit.__init__: a subject id holding "gb" or "ref" is replaced by group 1 of
\* the regular expression's match; re.search returns None when nothing
\* matches and .group then raises AttributeError.
HitInit(query, subject, identity, coverage, evalue, bitscore) ==
    IF HasMarker(subject) /\ MatchStarts(subject) = {}
    THEN Raise("AttributeError")
    ELSE Ok([query    |-> query,
             subject  |-> IF HasMarker(subject) THEN MatchGroup(subject)
                          ELSE subject,
             bitscore |-> bitscore,
             identity |-> identity,
             coverage |-> coverage,
             evalue   |-> evalue])

\* Hit.__key: the subject id is not part of a Hit's equality.
HitKey(h) == <<h.query, h.bitscore, h.identity, h.coverage, h.evalue>>

HitToDict(h) ==
    [query |-> h.query, subject |-> h.subject, identity |-> h.identity,
     coverage |-> h.coverage, evalue |-> h.evalue, bitscore |-> h.bitscore]

HitFields == {"query", "subject", "identity", "coverage", "evalue", "bitscore"}

\* Hit.from_dict: cls(**d), a TypeError unless d holds the six arguments and
\* nothing else.
HitFromDict(d) ==
    IF DOMAIN d # HitFields THEN Raise("TypeError")
    ELSE HitInit(d.query, d.subject, d.identity, d.coverage, d.evalue,
                 d.bitscore)

(***************************************************************************)
(* Subject                                                                 *)
(***************************************************************************)
\* `x if x else []` for an optional list argument.
ListOrEmpty(o) == IF o = None THEN <<>> ELSE o[1]

\* Subject.__init__; oid is the identity of the new object. hits is None or
\* <<list>>; the coordinates are None or <<integer>>, which int() keeps.
SubjectInit(oid, hits, name, ipg, start, end, strand) ==
    [oid |-> oid, hits |-> ListOrEmpty(hits), ipg |-> ipg, name |-> name,
     start |-> start, end |-> end, strand |-> strand]

\* Subject.__eq__: the hit sets (by Hit key), ipg, start, end and strand;
\* neither the name nor the identity of the object.
SubjectEq(a, b) ==
    /\ {HitKey(a.hits[i]) : i \in 1..Len(a.hits)}
         = {HitKey(b.hits[i]) : i \in 1..Len(b.hits)}
    /\ a.ipg = b.ipg
    /\ a.start = b.start
    /\ a.end = b.end
    /\ a.strand = b.strand

(***************************************************************************)
(* Cluster                                                                 *)
(***************************************************************************)
Scale == 10000

\* max(hits, key=bitscore): the first hit of maximal bitscore.
BestHit(hits) ==
    hits[Min({i \in 1..Len(hits) :
                \A j \in 1..Len(hits) : hits[j].bitscore <= hits[i].bitscore})]

\* list.index for query names: the 0-based position of the first occurrence.
QueryIndex(order, q) == Min({i \in 1..Len(order) : order[i] = q}) - 1

\* positions of __calculate_synteny_score: (query position, subject position).
SyntenyPositions(subjects, order) ==
    [i \in 1..Len(subjects) |->
        <<QueryIndex(order, BestHit(subjects[i].hits).query), i - 1>>]

\* The second loop of __calculate_synteny_score, from pair `index` on.
RECURSIVE SyntenyLoop(_, _, _)
SyntenyLoop(positions, index, score) ==
    IF index >= Len(positions) THEN score
    ELSE LET query        == positions[index][1]
             subject      == positions[index][2]
             next_query   == positions[index + 1][1]
             next_subject == positions[index + 1][2]
         IN  SyntenyLoop(positions, index + 1,
                IF /\ Abs(query - next_query) < 2
                   /\ Abs(query - next_query) = Abs(subject - next_subject)
                THEN score + 1 ELSE score)

\* Whether __calculate_synteny_score raises: max() of an empty hit list, or
\* a best hit whose query is not in the query order.
SyntenyRaises(subjects, order) ==
    /\ order # None /\ order[1] # <<>>
    /\ \E i \in 1..Len(subjects) :
          \/ subjects[i].hits = <<>>
          \/ \A k \in 1..Len(order[1]) :
                order[1][k] # BestHit(subjects[i].hits).query

\* SyntenyScore without the comparison against the subject distance: every
\* consecutive pair whose query positions differ by less than 2 counts.
SyntenyScoreAnyNear(subjects, order) ==
    IF order = None \/ order[1] = <<>> THEN 0
    ELSE LET positions == SyntenyPositions(subjects, order[1])
         IN  Cardinality({i \in 1..(Len(positions) - 1) :
                Abs(positions[i][1] - positions[i + 1][1]) < 2})

\* Cluster.__calculate_synteny_score; order is None or <<list>>.
SyntenyScore(subjects, order) ==
    IF order = None \/ order[1] = <<>> THEN 0
    ELSE SyntenyLoop(SyntenyPositions(subjects, order[1]), 1, 0)

\* Bitscore summing every hit of every subject.
BitscoreAllHits(subjects) ==
    SumSeq([i \in 1..Len(subjects) |->
              SumSeq([j \in 1..Len(subjects[i].hits) |->
                        subjects[i].hits[j].bitscore])])

\* Cluster.__calculate_bitscore: the sum of each subject's maximal bitscore.
Bitscore(subjects) ==
    SumSeq([i \in 1..Len(subjects) |-> BestHit(subjects[i].hits).bitscore])

BitscoreRaises(subjects) == \E i \in 1..Len(subjects) : subjects[i].hits = <<>>

\* Cluster.calculate_score, times Scale.
CalculateScore(subjects, order) ==
    Bitscore(subjects) + Scale * (Len(subjects) + SyntenyScore(subjects, order))

CalculateScoreRaises(subjects, order) ==
    SyntenyRaises(subjects, order) \/ BitscoreRaises(subjects)

\* Cluster.__init__: a falsy score, start or end (None, and also 0) is
\* replaced by the computed score, the first subject's start, the last
\* subject's end.
ClusterInit(oid, indices, subjects, order, score, start, end) ==
    IF ~Truthy(score) /\ CalculateScoreRaises(subjects, order)
    THEN Raise("ValueError")
    ELSE IF (~Truthy(start) \/ ~Truthy(end)) /\ subjects = <<>>
    THEN Raise("IndexError")
    ELSE Ok([oid      |-> oid,
             indices  |-> indices,
             subjects |-> subjects,
             score    |-> IF Truthy(score) THEN score[1]
                          ELSE CalculateScore(subjects, order),
             start    |-> IF Truthy(start) THEN start
                          ELSE subjects[1].start,
             end      |-> IF Truthy(end) THEN end
                          ELSE subjects[Len(subjects)].end])

\* Cluster.to_dict; the subjects are not part of it.
ClusterToDict(c) ==
    [indices |-> c.indices, score |-> Some(c.score), start |-> c.start,
     end |-> c.end]

(***************************************************************************)
(* Scaffold                                                                *)
(***************************************************************************)
\* Scaffold.__init__
ScaffoldInit(accession, clusters, subjects) ==
    [accession |-> accession,
     subjects  |-> IF subjects = None \/ subjects[1] = <<>> THEN <<>>
                   ELSE subjects[1],
     clusters  |-> IF clusters = None \/ clusters[1] = <<>> THEN <<>>
                   ELSE clusters[1]]

NoScaffold == ScaffoldInit("", None, None)

\* The positions of list whose entry list.index(x) accepts: the entry is x
\* itself, or compares equal to x.
IndexMatches(list, x) ==
    {i \in 1..Len(list) : list[i].oid = x.oid \/ SubjectEq(list[i], x)}

\* self.subjects.index(subject): the 0-based position of the first match.
SubjectIndex(list, x) == Min(IndexMatches(list, x)) - 1

\* InsertByScore putting x in front of the clusters of its own score.
InsertBeforeTies(sorted, x) ==
    LET k == Cardinality({i \in 1..Len(sorted) : sorted[i].score > x.score})
    IN  SubSeq(sorted, 1, k) \o <<x>> \o SubSeq(sorted, k + 1, Len(sorted))

\* Where x goes among clusters already in order: behind every cluster whose
\* score is at least x's.
InsertByScore(sorted, x) ==
    LET k == Cardinality({i \in 1..Len(sorted) : sorted[i].score >= x.score})
    IN  SubSeq(sorted, 1, k) \o <<x>> \o SubSeq(sorted, k + 1, Len(sorted))

\* list.sort(key=score, reverse=True): descending, and stable.
RECURSIVE SortByScore(_)
SortByScore(list) ==
    IF list = <<>> THEN <<>>
    ELSE InsertByScore(SortByScore(SubSeq(list, 1, Len(list) - 1)),
                       list[Len(list)])

\* The loop of add_clusters over subject_lists: it ends with the cluster
\* list it reached, and with the exception that stopped it, if one did.
RECURSIVE AddLoop(_, _, _, _), AddNext(_, _, _, _, _)
AddLoop(clusters, subjects, subject_lists, order) ==
    IF subject_lists = <<>> THEN [err |-> "", clusters |-> clusters]
    ELSE LET group == subject_lists[1]
         IN  IF \E i \in 1..Len(group) : IndexMatches(subjects, group[i]) = {}
             THEN [err |-> "ValueError", clusters |-> clusters]
             ELSE AddNext(clusters, subjects, subject_lists, order,
                          ClusterInit(Len(clusters) + 1,
                                      [i \in 1..Len(group) |->
                                         SubjectIndex(subjects, group[i])],
                                      group, order, None, None, None))

\* The end of a round: the new Cluster is appended, unless Cluster(...)
\* raised.
AddNext(clusters, subjects, subject_lists, order, new) ==
    IF ~new.ok THEN [err |-> new.err, clusters |-> clusters]
    ELSE AddLoop(Append(clusters, new.val[1]), subjects, Tail(subject_lists),
                 order)

\* Scaffold.add_clusters: the clusters are sorted once every group is in; an
\* exception leaves what the loop had appended, unsorted.
AddClusters(sc, subject_lists, order) ==
    LET done == AddLoop(sc.clusters, sc.subjects, subject_lists, order)
    IN  [err |-> done.err,
         scaffold |-> [sc EXCEPT !.clusters =
                          IF done.err = "" THEN SortByScore(done.clusters)
                          ELSE done.clusters]]

(***************************************************************************)
(* Serialisation of Subject, Cluster and Scaffold                          *)
(***************************************************************************)
SubjectToDict(x) ==
    [hits   |-> [i \in 1..Len(x.hits) |-> HitToDict(x.hits[i])],
     name   |-> x.name,
     ipg    |-> x.ipg,
     start  |-> x.start,
     end    |-> x.end,
     strand |-> x.strand]

\* Subject.from_dict: d["hits"] must be there, the other keys are read with
\* d.get and default to None. oid is the identity of the new object.
SubjectFromDict(d, oid) ==
    IF "hits" \notin DOMAIN d THEN Raise("KeyError")
    ELSE Bind(AllOk([i \in 1..Len(d.hits) |-> HitFromDict(d.hits[i])]),
              LAMBDA hits :
                Ok(SubjectInit(oid, Some(hits), Get(d, "name"), Get(d, "ipg"),
                               Get(d, "start"), Get(d, "end"),
                               Get(d, "strand"))))

ClusterFields == {"indices", "score", "start", "end"}

\* Cluster.from_dict(d, *subjects): the score, start and end of d are handed
\* to Cluster.__init__, with no query order.
ClusterFromDict(d, subjects, oid) ==
    IF ~(ClusterFields \subseteq DOMAIN d) THEN Raise("KeyError")
    ELSE ClusterInit(oid, d.indices, subjects, None, d.score, d.start, d.end)

\* One round of the loop of Scaffold.from_dict: subjects[ix] for every index
\* (a negative ix counts from the end of the list), then Cluster.from_dict.
LoadCluster(d, subjects, oid) ==
    IF "indices" \notin DOMAIN d THEN Raise("KeyError")
    ELSE IF \E i \in 1..Len(d.indices) : ~PyInRange(subjects, d.indices[i])
    THEN Raise("IndexError")
    ELSE ClusterFromDict(d,
            [i \in 1..Len(d.indices) |-> PyAt(subjects, d.indices[i])], oid)

ScaffoldToDict(sc) ==
    [accession |-> sc.accession,
     subjects  |-> [i \in 1..Len(sc.subjects) |-> SubjectToDict(sc.subjects[i])],
     clusters  |-> [i \in 1..Len(sc.clusters) |-> ClusterToDict(sc.clusters[i])]]

\* Scaffold.from_dict: the subjects, then the clusters over them, then the
\* accession. The new Subjects get the identities base + 1, base + 2, ...
ScaffoldFromDict(d, base) ==
    IF "subjects" \notin DOMAIN d THEN Raise("KeyError")
    ELSE Bind(AllOk([i \in 1..Len(d.subjects) |->
                       SubjectFromDict(d.subjects[i], base + i)]),
              LAMBDA subjects :
                IF "clusters" \notin DOMAIN d THEN Raise("KeyError")
                ELSE Bind(AllOk([i \in 1..Len(d.clusters) |->
                                   LoadCluster(d.clusters[i], subjects, i)]),
                          LAMBDA clusters :
                            IF "accession" \notin DOMAIN d
                            THEN Raise("KeyError")
                            ELSE Ok(ScaffoldInit(d.accession, Some(clusters),
                                                 Some(subjects)))))

(***************************************************************************)
(* Organism                                                                *)
(***************************************************************************)
\* A dict that the code iterates is the list of its <<key, value>> pairs in
\* insertion order.
DictKeys(pairs) == {pairs[i][1] : i \in 1..Len(pairs)}

\* d[key] = value: a new key goes to the end, a known key keeps its place.
DictPut(pairs, key, value) ==
    IF key \in DictKeys(pairs)
    THEN [i \in 1..Len(pairs) |->
            IF pairs[i][1] = key THEN <<key, value>> ELSE pairs[i]]
    ELSE Append(pairs, <<key, value>>)

\* Organism.__init__; scaffolds is None or <<dict>>.
OrganismInit(name, strain, scaffolds) ==
    [name |-> name, strain |-> strain, scaffolds |-> ListOrEmpty(scaffolds)]

\* Python truthiness of an optional str: None and "" are falsy.
TruthyStr(o) == o # None /\ o[1] # <<>>

\* The literal "No organism" of full_name.
NoOrganismName == <<"N", "o", " ", "o", "r", "g", "a", "n", "i", "s", "m">>

\* f"{a} {b}"
Spaced(a, b) == a \o <<" ">> \o b

\* Organism.full_name, the name and the strain being None or <<str>>, a str
\* being a sequence of characters.  A strain that is read is truthy, and so a
\* str.
FullName(o) ==
    IF ~TruthyStr(o.name)
    THEN IF TruthyStr(o.strain)
         THEN Spaced(NoOrganismName, o.strain[1])
         ELSE NoOrganismName
    ELSE IF TruthyStr(o.strain)
         THEN Spaced(o.name[1], o.strain[1])
         ELSE o.name[1]

OrganismToDict(o) ==
    [name      |-> o.name,
     strain    |-> o.strain,
     scaffolds |-> [i \in 1..Len(o.scaffolds) |->
                      ScaffoldToDict(o.scaffolds[i][2])]]

\* The dict comprehension of Organism.from_dict over the first n scaffolds.
RECURSIVE ScaffoldsByAccession(_, _)
ScaffoldsByAccession(loaded, n) ==
    IF n = 0 THEN <<>>
    ELSE DictPut(ScaffoldsByAccession(loaded, n - 1),
                 loaded[n].accession, loaded[n])

\* Organism.from_dict: every scaffold is keyed by its own accession.
OrganismFromDict(d, base) ==
    IF ~({"name", "strain", "scaffolds"} \subseteq DOMAIN d)
    THEN Raise("KeyError")
    ELSE Bind(AllOk([i \in 1..Len(d.scaffolds) |->
                       IF "accession" \notin DOMAIN d.scaffolds[i]
                       THEN Raise("KeyError")
                       ELSE ScaffoldFromDict(d.scaffolds[i],
                                             (base * 10 + i) * 10)]),
              LAMBDA loaded :
                Ok(OrganismInit(d.name, d.strain,
                      Some(ScaffoldsByAccession(loaded, Len(loaded))))))

(***************************************************************************)
(* Session                                                                 *)
(***************************************************************************)
\* `x if x else []` and `x if x else {}`: None and the empty collection both
\* give the empty collection, which is <<>> for a list and for a dict.
Collection(o) == IF o = None THEN <<>> ELSE o[1]

\* Session.__init__; every argument is None or <<value>>.
SessionInit(queries, sequences, params, organisms) ==
    [queries   |-> Collection(queries),
     params    |-> Collection(params),
     organisms |-> Collection(organisms),
     sequences |-> Collection(sequences)]

\* SessionAdd extending self.organisms in place.
SessionAddInPlace(self, other) ==
    [self   |-> [self EXCEPT !.organisms = self.organisms \o other.organisms],
     other  |-> other,
     result |-> IF self.queries # other.queries THEN Raise("ValueError")
                ELSE Ok(SessionInit(Some(self.queries), Some(self.sequences),
                                    Some(self.params),
                                    Some(self.organisms \o other.organisms)))]

\* SessionAdd comparing the query lists as sets.
SessionAddAnyOrder(self, other) ==
    [self   |-> self,
     other  |-> other,
     result |-> IF {self.queries[i] : i \in 1..Len(self.queries)}
                     # {other.queries[i] : i \in 1..Len(other.queries)}
                THEN Raise("ValueError")
                ELSE Ok(SessionInit(Some(self.queries), Some(self.sequences),
                                    Some(self.params),
                                    Some(self.organisms \o other.organisms)))]

\* Session.__add__: what it leaves of self and of other, and the Session it
\* returns or the exception it raises.
SessionAdd(self, other) ==
    [self   |-> self,
     other  |-> other,
     result |-> IF self.queries # other.queries THEN Raise("ValueError")
                ELSE Ok(SessionInit(Some(self.queries), Some(self.sequences),
                                    Some(self.params),
                                    Some(self.organisms \o other.organisms)))]

SessionToDict(x) ==
    [queries   |-> x.queries,
     sequences |-> x.sequences,
     params    |-> x.params,
     organisms |-> [i \in 1..Len(x.organisms) |-> OrganismToDict(x.organisms[i])]]

\* d.get(key, None) for a key whose value is not optional itself.
GetOpt(d, key) == IF key \in DOMAIN d THEN Some(d[key]) ELSE None

\* Session.from_dict: every key is read with d.get and has a default.
SessionFromDict(d) ==
    Bind(AllOk([i \in 1..Len(Collection(GetOpt(d, "organisms"))) |->
                  OrganismFromDict(d.organisms[i], i)]),
         LAMBDA organisms :
            Ok(SessionInit(GetOpt(d, "queries"), GetOpt(d, "sequences"),
                           GetOpt(d, "params"), Some(organisms))))

\* Session.from_file: the Session a persisted file holds.
SessionFromFile(file) == SessionFromDict(file)

(***************************************************************************)
(* The values the checks draw from                                         *)
(***************************************************************************)
\* A subject id that needs no normalisation.
Acc(c) == <<c>>

MkHit(query, bitscore) ==
    HitInit(query, Acc("A"), 90, 95, 0, bitscore).val[1]

FullOrder == <<"q1", "q2", "q3">>

\* Five Subjects: best hits to q1, q2 and q3; one with two equally good
\* hits and no start; one with no hits at all.
P1 == SubjectInit(1, Some(<<MkHit("q1", 80)>>), Some("p1"), Some(11), Some(0), Some(10),
                  Some("+"))

P2 == SubjectInit(2, Some(<<MkHit("q3", 50), MkHit("q2", 80)>>), Some("p2"),
                  Some(12), Some(20), Some(30), Some("+"))

P3 == SubjectInit(3, Some(<<MkHit("q3", 80)>>), Some("p3"), Some(13), Some(40),
                  Some(50), Some("-"))

P4 == SubjectInit(4, Some(<<MkHit("q2", 50), MkHit("q1", 50)>>), None, None, None,
                  Some(0), None)

P5 == SubjectInit(5, None, Some("p5"), Some(15), Some(60), Some(70), Some("-"))

ClusterPool == {P1, P2, P3, P4, P5}

MaxClusterLen == 3

SeqsUpTo(S, n) == UNION {[1..k -> S] : k \in 0..n}

\* None, the full query order, and an order that lacks q3.
Orders == {None, Some(FullOrder), Some(<<"q1", "q2">>)}

OptScores == {None, Some(0), Some(25000)}

OptCoords == {None, Some(0), Some(7)}

(***************************************************************************)
(* ClusterSpec: a Cluster(...) call on arguments drawn by the initial      *)
(* state                                                                   *)
(***************************************************************************)
NoRaw == [made |-> FALSE, via |-> "", subject |-> <<>>]

NoArgs == [made |-> FALSE, subjects |-> <<>>, order |-> None, score |-> None,
           start |-> None, end |-> None]

NoLoader == [pc |-> "idle", s |-> None, next |-> 0, loaded |-> 0,
             result |-> NoCall]

\* The variables of the specifications that are not running.
NoClusterCall == call = NoArgs /\ cluster = NoCall

NoHitCall == raw = NoRaw /\ hit = NoCall

NoScaffoldCall == scaffold = NoScaffold /\ status = "none"

NoMerge ==
    operands = <<>> /\ merged = NoCall /\ files = <<>> /\ loader = NoLoader

NoLoad ==
    session = None /\ reloaded = NoCall /\ stored = None /\ restored = NoCall

NoName == organism = None /\ full_name = NoCall

NoKeys == persisted = None /\ parsed = NoCall

ClusterArgs ==
    [made : {FALSE}, subjects : SeqsUpTo(ClusterPool, MaxClusterLen),
     order : Orders, score : OptScores, start : OptCoords, end : OptCoords]

ClusterInitState ==
    /\ call \in ClusterArgs
    /\ cluster = NoCall
    /\ NoHitCall
    /\ NoScaffoldCall
    /\ NoMerge
    /\ NoLoad
    /\ NoName
    /\ NoKeys

\* Cluster(indices, subjects, query_sequence_order, score, start, end)
NewCluster ==
    /\ ~call.made
    /\ call' = [call EXCEPT !.made = TRUE]
    /\ cluster' = ClusterInit(0, [i \in 1..Len(call.subjects) |-> i - 1],
                              call.subjects, call.order, call.score,
                              call.start, call.end)
    /\ UNCHANGED <<hitVars, scaffoldVars, mergeVars, loadVars, nameVars,
                   keyVars>>

ClusterNext == NewCluster

ClusterSpec == ClusterInitState /\ [][ClusterNext]_vars

(***************************************************************************)
(* HitSpec: a Hit(...) or Hit.from_dict(...) call on a subject id drawn by *)
(* the initial state                                                       *)
(***************************************************************************)
\* The pieces subject ids are put together from: the two database tags, the
\* pipe, an accession character and a blank.
Pieces == {<<"g", "b">>, <<"r", "e", "f">>, <<"|">>, <<"A">>, <<" ">>}

MaxParts == 5

RECURSIVE Concat(_)
Concat(parts) == IF parts = <<>> THEN <<>> ELSE parts[1] \o Concat(Tail(parts))

SubjectIds == {Concat(parts) : parts \in SeqsUpTo(Pieces, MaxParts)}

HitInitState ==
    /\ raw \in [made : {FALSE}, via : {""}, subject : SubjectIds]
    /\ hit = NoCall
    /\ NoClusterCall
    /\ NoScaffoldCall
    /\ NoMerge
    /\ NoLoad
    /\ NoName
    /\ NoKeys

\* Hit(query, subject, identity, coverage, evalue, bitscore)
NewHit ==
    /\ ~raw.made
    /\ raw' = [raw EXCEPT !.made = TRUE, !.via = "init"]
    /\ hit' = HitInit("q1", raw.subject, 90, 95, 0, 80)
    /\ UNCHANGED <<clusterVars, scaffoldVars, mergeVars, loadVars, nameVars,
                   keyVars>>

\* Hit.from_dict(d)
LoadHit ==
    /\ ~raw.made
    /\ raw' = [raw EXCEPT !.made = TRUE, !.via = "from_dict"]
    /\ hit' = HitFromDict([query |-> "q1", subject |-> raw.subject,
                           identity |-> 90, coverage |-> 95, evalue |-> 0,
                           bitscore |-> 80])
    /\ UNCHANGED <<clusterVars, scaffoldVars, mergeVars, loadVars, nameVars,
                   keyVars>>

HitNext == NewHit \/ LoadHit

HitSpec == HitInitState /\ [][HitNext]_vars

(***************************************************************************)
(* ScaffoldSpec: add_clusters calls on a Scaffold                          *)
(***************************************************************************)
\* Three Subjects: SA and SB are two objects that compare equal, SC differs.
SA == P1

SB == SubjectInit(6, Some(P1.hits), Some("p6"), P1.ipg, P1.start, P1.end,
                  P1.strand)

SC == P2

ScaffoldPool == {SA, SB, SC}

Distinct(list) == \A i, j \in 1..Len(list) : list[i] = list[j] => i = j

\* The subject lists a Scaffold is built with.
SubjectLists ==
    {list \in SeqsUpTo(ScaffoldPool, Cardinality(ScaffoldPool)) :
        list # <<>> /\ Distinct(list)}

\* The groups handed to add_clusters: the empty group, each Subject alone and
\* each ordered pair of different Subjects.
GroupsOf(pool) ==
    {<<>>} \cup {<<a>> : a \in pool} \cup {g \in pool \X pool : g[1] # g[2]}

Groups == GroupsOf(ScaffoldPool)

MaxGroups == 2

MaxClusters == 2

ScaffoldInitState ==
    /\ \E list \in SubjectLists :
          scaffold = ScaffoldInit("acc", None, Some(list))
    /\ status = "new"
    /\ NoClusterCall
    /\ NoHitCall
    /\ NoMerge
    /\ NoLoad
    /\ NoName
    /\ NoKeys

\* scaffold.add_clusters(subject_lists, query_sequence_order), the groups
\* being drawn from `groups` while the Scaffold has room for them below
\* `most` clusters.
AddClustersIn(groups, most) ==
    \E subject_lists \in SeqsUpTo(groups, MaxGroups),
       order \in {None, Some(FullOrder)} :
        /\ Len(scaffold.clusters) + Len(subject_lists) <= most
        /\ LET r == AddClusters(scaffold, subject_lists, order)
           IN  /\ scaffold' = r.scaffold
               /\ status' = IF r.err = "" THEN "ok" ELSE r.err
        /\ UNCHANGED <<clusterVars, hitVars, mergeVars, loadVars, nameVars,
                       keyVars>>

AddClustersOf(groups) == AddClustersIn(groups, MaxClusters)

AddClustersCall == AddClustersOf(Groups)

ScaffoldNext == AddClustersCall

ScaffoldSpec == ScaffoldInitState /\ [][ScaffoldNext]_vars

(***************************************************************************)
(* MergeSpec: a merge of two Sessions, or a from_files call                *)
(***************************************************************************)
MkOrganism(name) == OrganismInit(name, "s1", None)

OrganismNames == {"o1", "o2"}

MaxOrganisms == 2

QueryLists == {<<>>, <<"q1", "q2">>, <<"q2", "q1">>, <<"q1">>}

ParamDicts == {<<>>, [mode |-> "remote"], [mode |-> "local"]}

SequenceDicts == {<<>>, [q1 |-> "MKV"]}

\* The Sessions that are merged.
Sessions ==
    {SessionInit(Some(queries), Some(sequences), Some(params),
                 Some([i \in 1..Len(names) |-> MkOrganism(names[i])])) :
        queries \in QueryLists, sequences \in SequenceDicts,
        params \in ParamDicts, names \in SeqsUpTo(OrganismNames, MaxOrganisms)}

MaxFiles == 3

\* The Sessions that were persisted to the files from_files reads.
PersistedSessions ==
    {SessionToDict(SessionInit(Some(queries), None, Some(params),
                               Some(<<MkOrganism(name)>>))) :
        queries \in QueryLists \ {<<>>}, params \in ParamDicts \ {<<>>},
        name \in OrganismNames}

MergeInitState ==
    /\ \/ /\ operands \in Sessions \X Sessions
          /\ files = <<>>
          /\ loader = NoLoader
       \/ /\ operands = <<>>
          /\ files \in SeqsUpTo(PersistedSessions, MaxFiles)
          /\ loader = [NoLoader EXCEPT !.pc = "start"]
    /\ merged = NoCall
    /\ NoClusterCall
    /\ NoHitCall
    /\ NoScaffoldCall
    /\ NoLoad
    /\ NoName
    /\ NoKeys

\* operands[1] + operands[2]
Merge ==
    /\ operands # <<>>
    /\ merged = NoCall
    /\ LET r == SessionAdd(operands[1], operands[2])
       IN  /\ operands' = <<r.self, r.other>>
           /\ merged' = r.result
    /\ UNCHANGED <<clusterVars, hitVars, scaffoldVars, files, loader,
                   loadVars, nameVars, keyVars>>

\* from_files after cls.from_file(first): with one file its Session is the
\* result, with more it is the first value of s.
FirstLoaded(l, n, first) ==
    IF n = 1 \/ ~first.ok
    THEN [l EXCEPT !.pc = "done", !.loaded = 1, !.result = first]
    ELSE [l EXCEPT !.pc = "loop", !.s = Some(first.val[1]), !.next = 2,
                   !.loaded = 1]

\* from_files after s += cls.from_file(f): an exception of from_file or of the
\* merge ends the call, a sum is the next value of s.
NextLoaded(l, sum) ==
    IF ~sum.ok
    THEN [l EXCEPT !.pc = "done", !.result = sum, !.loaded = l.next]
    ELSE [l EXCEPT !.s = Some(sum.val[1]), !.next = l.next + 1,
                   !.loaded = l.next]

\* Session.from_files up to its loop: one file is loaded and returned, of
\* several the first is loaded into s, and `first, *rest = files` raises
\* ValueError on no file at all.
FromFilesStart ==
    /\ loader.pc = "start"
    /\ loader' =
          IF files = <<>>
          THEN [loader EXCEPT !.pc = "done", !.result = Raise("ValueError")]
          ELSE FirstLoaded(loader, Len(files), SessionFromFile(files[1]))
    /\ UNCHANGED <<clusterVars, hitVars, scaffoldVars, operands, merged, files,
                   loadVars, nameVars, keyVars>>

\* One round of the loop: s += cls.from_file(f). An exception ends from_files.
FromFilesStep ==
    /\ loader.pc = "loop"
    /\ loader.next <= Len(files)
    /\ loader' = NextLoaded(loader,
                    Bind(SessionFromFile(files[loader.next]),
                         LAMBDA f : SessionAdd(loader.s[1], f).result))
    /\ UNCHANGED <<clusterVars, hitVars, scaffoldVars, operands, merged, files,
                   loadVars, nameVars, keyVars>>

\* return s
FromFilesReturn ==
    /\ loader.pc = "loop"
    /\ loader.next > Len(files)
    /\ loader' = [loader EXCEPT !.pc = "done", !.result = Ok(loader.s[1])]
    /\ UNCHANGED <<clusterVars, hitVars, scaffoldVars, operands, merged, files,
                   loadVars, nameVars, keyVars>>

MergeNext == Merge \/ FromFilesStart \/ FromFilesStep \/ FromFilesReturn

MergeSpec == MergeInitState /\ [][MergeNext]_vars

(***************************************************************************)
(* LoadSpec: a Session is built and taken through to_dict and from_dict,   *)
(* or a persisted scaffold is loaded                                       *)
(***************************************************************************)
\* "ref|gbA|": the accession between the pipes holds the letters "gb".
TaggedId == <<"r", "e", "f", "|", "g", "b", "A", "|">>

\* A Subject whose Hit was built from TaggedId.
SG == SubjectInit(7, Some(<<HitInit("q3", TaggedId, 90, 95, 0, 80).val[1]>>),
                  Some("p7"), Some(17), Some(60), Some(70), Some("-"))

LoadPool == {SA, SB, SC, SG}

\* A Cluster built with a score, a start and an end of its own.
ScoredCluster(subject) ==
    ClusterInit(1, <<0>>, <<subject>>, None, Some(25000), Some(7), Some(9)).val[1]

\* Two neighbouring Subjects whose best hits, to q1 and to q2, have negative
\* bitscores.
SN == SubjectInit(8, Some(<<MkHit("q1", 0 - 15000)>>), Some("p8"), Some(18),
                  Some(80), Some(90), Some("+"))

SM == SubjectInit(9, Some(<<MkHit("q2", 0 - 15000)>>), Some("p9"), Some(19),
                  Some(100), Some(110), Some("+"))

\* The Cluster of SN and SM as add_clusters builds it when the query order is
\* known: its score is computed.
SyntenicCluster ==
    ClusterInit(1, <<0, 1>>, <<SN, SM>>, Some(FullOrder), None, None, None).val[1]

\* The Scaffolds at the start: one or two Subjects, and no cluster or one
\* that was built with its score; and the Scaffold of SN and SM with their
\* Cluster.
StartScaffolds ==
    {ScaffoldInit("acc", clusters, Some(list)) :
        list \in {l \in SeqsUpTo(LoadPool, 2) : l # <<>> /\ Distinct(l)},
        clusters \in {None}} \cup
    {ScaffoldInit("acc", Some(<<ScoredCluster(list[1])>>), Some(list)) :
        list \in {l \in SeqsUpTo(LoadPool, 2) : l # <<>> /\ Distinct(l)}} \cup
    {ScaffoldInit("acc", Some(<<SyntenicCluster>>), Some(<<SN, SM>>))}

\* The Session around a Scaffold: an organism holding it and an empty second
\* scaffold, each under its accession, and a second organism.
SessionOf(sc, queries, params) ==
    SessionInit(queries, Some([q1 |-> "MKV"]), params,
        Some(<<OrganismInit("o1", "s1",
                  Some(<<<<sc.accession, sc>>,
                         <<"acc2", ScaffoldInit("acc2", None, None)>>>>)),
               OrganismInit("o2", "", None)>>))

\* The index lists of a persisted cluster over n subjects: no index, one, or
\* two, each from one below -n to n.
IndexLists(n) ==
    LET range == (0 - n - 1)..n
    IN  {<<>>} \cup {<<i>> : i \in range} \cup (range \X range)

StoredClusters(n) ==
    [indices : IndexLists(n), score : {Some(25000)},
     start : {None, Some(7)}, end : {Some(9)}]

MaxStoredClusters == 1

\* The persisted scaffolds: the subjects as to_dict writes them, and clusters
\* with any indices.
StoredScaffolds ==
    UNION {[accession : {"acc"},
            subjects : {[i \in 1..Len(list) |-> SubjectToDict(list[i])]},
            clusters : SeqsUpTo(StoredClusters(Len(list)), MaxStoredClusters)] :
        list \in {<<>>, <<SA>>, <<SA, SC>>, <<SC, SB, SA>>}}

\* The groups handed to add_clusters on the Scaffold of the Session to be:
\* each Subject alone, and two pairs.
LoadGroups == {<<a>> : a \in LoadPool} \cup {<<SA, SC>>, <<SB, SA>>}

LoadInitState ==
    /\ \/ /\ scaffold \in StartScaffolds
          /\ status = "new"
          /\ stored = None
       \/ /\ NoScaffoldCall
          /\ stored \in {Some(d) : d \in StoredScaffolds}
    /\ session = None
    /\ reloaded = NoCall
    /\ restored = NoCall
    /\ NoClusterCall
    /\ NoHitCall
    /\ NoMerge
    /\ NoName
    /\ NoKeys

\* scaffold.add_clusters(...) on the Scaffold of the Session to be.
BuildClusters ==
    /\ status # "none"
    /\ session = None
    /\ AddClustersOf(LoadGroups)

\* Session.from_dict(session.to_dict())
RoundTrip ==
    /\ status # "none"
    /\ session = None
    /\ \E queries \in {None, Some(FullOrder)},
          params \in {None, Some([mode |-> "remote"])} :
          /\ session' = Some(SessionOf(scaffold, queries, params))
          /\ reloaded' = SessionFromDict(
                            SessionToDict(SessionOf(scaffold, queries, params)))
    /\ UNCHANGED <<clusterVars, hitVars, scaffoldVars, mergeVars, stored,
                   restored, nameVars, keyVars>>

\* Scaffold.from_dict(stored)
LoadScaffold ==
    /\ stored # None
    /\ restored = NoCall
    /\ restored' = ScaffoldFromDict(stored[1], 100)
    /\ UNCHANGED <<clusterVars, hitVars, scaffoldVars, mergeVars, session,
                   reloaded, stored, nameVars, keyVars>>

LoadNext == BuildClusters \/ RoundTrip \/ LoadScaffold

LoadSpec == LoadInitState /\ [][LoadNext]_vars

(***************************************************************************)
(* NameSpec: the full_name of an Organism                                  *)
(***************************************************************************)
NameChars == {"A", "b", " "}

MaxNameLen == 3

MaxStrainLen == 2

\* The names and strains an Organism is built with: None, "" and the short
\* texts over NameChars.
OptNames == {None} \cup {Some(t) : t \in SeqsUpTo(NameChars, MaxNameLen)}

OptStrains == {None} \cup {Some(t) : t \in SeqsUpTo(NameChars, MaxStrainLen)}

NameInitState ==
    /\ \E name \in OptNames, strain \in OptStrains :
          organism = Some(OrganismInit(name, strain, None))
    /\ full_name = NoCall
    /\ NoClusterCall
    /\ NoHitCall
    /\ NoScaffoldCall
    /\ NoMerge
    /\ NoLoad
    /\ NoKeys

\* organism.full_name
ReadFullName ==
    /\ organism # None
    /\ full_name = NoCall
    /\ full_name' = Ok(FullName(organism[1]))
    /\ UNCHANGED <<clusterVars, hitVars, scaffoldVars, mergeVars, loadVars,
                   organism, keyVars>>

NameNext == ReadFullName

NameSpec == NameInitState /\ [][NameNext]_vars

(***************************************************************************)
(* KeySpec: Session.from_dict on persisted data that lacks a key           *)
(***************************************************************************)
\* The keys each to_dict writes.
SessionKeys == {"queries", "sequences", "params", "organisms"}

OrganismKeys == {"name", "strain", "scaffolds"}

ScaffoldKeys == {"accession", "subjects", "clusters"}

SubjectKeys == {"hits", "name", "ipg", "start", "end", "strand"}

\* What may be missing: nothing, or one key of the dicts of one class.
Lacks ==
    {<<"", "">>}
        \cup ({"Session"} \X SessionKeys) \cup ({"Organism"} \X OrganismKeys)
        \cup ({"Scaffold"} \X ScaffoldKeys) \cup ({"Cluster"} \X ClusterFields)
        \cup ({"Subject"} \X SubjectKeys) \cup ({"Hit"} \X HitFields)

\* The dict d of class `class` without the key that is missing.
Drop(class, d, gone) ==
    IF gone[1] = class THEN [k \in (DOMAIN d) \ {gone[2]} |-> d[k]] ELSE d

LackingSubject(d, gone) ==
    Drop("Subject",
         [d EXCEPT !.hits = [i \in 1..Len(d.hits) |->
                               Drop("Hit", d.hits[i], gone)]], gone)

LackingScaffold(d, gone) ==
    Drop("Scaffold",
         [d EXCEPT !.subjects = [i \in 1..Len(d.subjects) |->
                                   LackingSubject(d.subjects[i], gone)],
                   !.clusters = [i \in 1..Len(d.clusters) |->
                                   Drop("Cluster", d.clusters[i], gone)]],
         gone)

LackingOrganism(d, gone) ==
    Drop("Organism",
         [d EXCEPT !.scaffolds = [i \in 1..Len(d.scaffolds) |->
                                    LackingScaffold(d.scaffolds[i], gone)]],
         gone)

LackingSession(d, gone) ==
    Drop("Session",
         [d EXCEPT !.organisms = [i \in 1..Len(d.organisms) |->
                                    LackingOrganism(d.organisms[i], gone)]],
         gone)

\* The Sessions that are persisted: a Scaffold of one or two Subjects and a
\* Cluster of the first, in a Session with or without queries and params.
KeySessions ==
    {SessionOf(ScaffoldInit("acc", Some(<<ScoredCluster(list[1])>>),
                            Some(list)), queries, params) :
        list \in {<<SA>>, <<SA, SC>>, <<SC, SA>>},
        queries \in {None, Some(FullOrder)},
        params \in {None, Some([mode |-> "remote"])}}

KeyInitState ==
    /\ \E x \in KeySessions, gone \in Lacks :
          persisted = Some(LackingSession(SessionToDict(x), gone))
    /\ parsed = NoCall
    /\ NoClusterCall
    /\ NoHitCall
    /\ NoScaffoldCall
    /\ NoMerge
    /\ NoLoad
    /\ NoName

\* Session.from_dict(persisted)
ParseSession ==
    /\ persisted # None
    /\ parsed = NoCall
    /\ parsed' = SessionFromDict(persisted[1])
    /\ UNCHANGED <<clusterVars, hitVars, scaffoldVars, mergeVars, loadVars,
                   nameVars, persisted>>

KeyNext == ParseSession

KeySpec == KeyInitState /\ [][KeyNext]_vars

(***************************************************************************)
(* SortSpec: a Scaffold through add_clusters, to_dict and from_dict        *)
(***************************************************************************)
\* The groups handed to add_clusters: SA and SC alone and together, and SG,
\* which the Scaffold does not hold.
SortGroups == {<<SA>>, <<SC>>, <<SA, SC>>, <<SG>>}

MaxSortClusters == 3

SortInitState ==
    /\ \E list \in {<<SA>>, <<SA, SC>>, <<SC, SA>>} :
          scaffold = ScaffoldInit("acc", None, Some(list))
    /\ status = "new"
    /\ NoClusterCall
    /\ NoHitCall
    /\ NoMerge
    /\ NoLoad
    /\ NoName
    /\ NoKeys

\* scaffold.add_clusters(...), while the Scaffold is not persisted.
AddSortClusters ==
    /\ stored = None
    /\ AddClustersIn(SortGroups, MaxSortClusters)

\* stored = scaffold.to_dict()
Persist ==
    /\ status # "none"
    /\ stored = None
    /\ stored' = Some(ScaffoldToDict(scaffold))
    /\ UNCHANGED <<clusterVars, hitVars, scaffoldVars, mergeVars, session,
                   reloaded, restored, nameVars, keyVars>>

SortNext == AddSortClusters \/ Persist \/ LoadScaffold

SortSpec == SortInitState /\ [][SortNext]_vars

(***************************************************************************)
(* Properties of ClusterSpec                                               *)
(***************************************************************************)
\* The Cluster the call built.
Built == cluster.val[1]

\* The call computed the score itself and returned.
Computed == call.made /\ cluster.ok /\ ~Truthy(call.score)

Max(S) == CHOOSE x \in S : \A y \in S : y <= x

\* The largest bitscore among a subject's hits.
MaxBitscore(subject) ==
    Max({subject.hits[j].bitscore : j \in 1..Len(subject.hits)})

MaxBitscoreSum(subjects) ==
    SumSeq([i \in 1..Len(subjects) |-> MaxBitscore(subjects[i])])

\* The 0-based position, in the query order, of the query of a subject's
\* best hit.
BestQueryPos(subject, order) == QueryIndex(order, BestHit(subject.hits).query)

\* The consecutive pairs of subjects the synteny rule counts: the query
\* positions differ by less than 2, and by as much as the subject positions.
SyntenicPairs(subjects, order) ==
    {i \in 1..(Len(subjects) - 1) :
        LET dq == Abs(BestQueryPos(subjects[i], order)
                        - BestQueryPos(subjects[i + 1], order))
            ds == Abs((i - 1) - i)
        IN  dq < 2 /\ dq = ds}

\* What a computed score holds beyond the bitscores and the subject count.
SyntenyComponent ==
    (Built.score - MaxBitscoreSum(call.subjects)) \div Scale
        - Len(call.subjects)

\* C5 (as claimed): a supplied score, 0 included, is stored as it is, and a
\* call without a score stores the value of the scoring formula.
C5_ScoreIdempotence ==
    (call.made /\ cluster.ok) =>
        IF call.score # None
        THEN Built.score = call.score[1]
        ELSE Built.score = CalculateScore(call.subjects, call.order)

\* C8: the synteny component of a computed score is 0 without a query order,
\* and otherwise the number of consecutive pairs whose query positions
\* differ by less than 2 and by as much as their subject positions; best
\* hits q1, q2, q3 give 2, and in q1, q3, q2 the pair (q1, q3) gives 0.
C8_Synteny ==
    Computed =>
        /\ call.order = None => SyntenyComponent = 0
        /\ call.order # None =>
              SyntenyComponent
                = Cardinality(SyntenicPairs(call.subjects, call.order[1]))
        /\ (call.order = Some(FullOrder) /\ call.subjects = <<P1, P2, P3>>)
              => SyntenyComponent = 2
        /\ (call.order = Some(FullOrder) /\ call.subjects = <<P1, P3>>)
              => SyntenyComponent = 0
        /\ (call.order = Some(FullOrder) /\ call.subjects = <<P1, P3, P2>>)
              => /\ 1 \notin SyntenicPairs(call.subjects, FullOrder)
                 /\ SyntenyComponent = 1

C8_Witness ==
    /\ Computed
    /\ call.order = Some(FullOrder)
    /\ call.subjects = <<P1, P3, P2>>
    /\ Built.score = 240 + Scale * 4

\* C9: a computed score is the sum of each subject's largest bitscore, plus
\* 10000 times the subject count and the synteny component; a subject with
\* hits of 50 and 80 contributes 80.
C9_ScoreFormula ==
    Computed =>
        /\ Built.score = MaxBitscoreSum(call.subjects)
                + Scale * (Len(call.subjects)
                            + SyntenyScore(call.subjects, call.order))
        /\ (call.subjects = <<P2>>) => Built.score = 80 + Scale

C9_Witness ==
    /\ Computed
    /\ call.subjects = <<P2>>
    /\ call.order = None
    /\ Built.score = 80 + Scale

(***************************************************************************)
(* Properties of HitSpec                                                   *)
(***************************************************************************)
\* "gb|A|A A", a subject id of the database-header form.
HeaderId == <<"g", "b", "|", "A", "|", "A", " ", "A">>

HasPipe(s) == \E i \in 1..Len(s) : s[i] = "|"

\* C10 (as claimed): the database-header form stores the bare accession, and
\* every subject id without a pipe, also one holding "gb" or "ref", is
\* stored unchanged by a construction that succeeds.
C10_HitNormalization ==
    raw.made =>
        /\ raw.subject = HeaderId => (hit.ok /\ hit.val[1].subject = <<"A">>)
        /\ ~HasPipe(raw.subject) =>
              (hit.ok /\ hit.val[1].subject = raw.subject)

(***************************************************************************)
(* Properties of ScaffoldSpec                                              *)
(***************************************************************************)
\* Clusters are numbered as they are built, so a smaller oid is an earlier
\* submission.
SubmittedBefore(c, d) == c.oid < d.oid

\* C4: after a successful add_clusters the cluster list is in descending
\* order of score, and clusters of equal score are in the order submitted.
C4_ClusterOrdering ==
    status = "ok" =>
        \A i, j \in 1..Len(scaffold.clusters) :
            i < j =>
                /\ scaffold.clusters[i].score >= scaffold.clusters[j].score
                /\ scaffold.clusters[i].score = scaffold.clusters[j].score
                      => SubmittedBefore(scaffold.clusters[i],
                                         scaffold.clusters[j])

C4_Witness ==
    /\ status = "ok"
    /\ Len(scaffold.clusters) = 2
    /\ scaffold.clusters[1].score = scaffold.clusters[2].score
    /\ scaffold.clusters[1].subjects # scaffold.clusters[2].subjects

\* C7 (as claimed): every index of every cluster is the position, in the
\* Scaffold's subject list, of the very Subject object the cluster holds
\* there; so no cluster holds a Subject that is not an entry of that list.
C7_IndexResolution ==
    \A k \in 1..Len(scaffold.clusters) :
        LET c == scaffold.clusters[k]
        IN  \A i \in 1..Len(c.subjects) :
                PyAt(scaffold.subjects, c.indices[i]).oid = c.subjects[i].oid

(***************************************************************************)
(* Properties of MergeSpec                                                 *)
(***************************************************************************)
\* The step is a merge of two Sessions.
Merging == operands # <<>> /\ merged = NoCall /\ merged' # NoCall

\* C2: a merge of two Sessions with equal query lists returns a Session with
\* the organisms of the left operand followed by those of the right one, none
\* dropped, and with the queries, sequences and params of the left operand;
\* both operands are as they were.
C2_MergeSuccess ==
    [][(Merging /\ operands[1].queries = operands[2].queries) =>
          /\ merged'.ok
          /\ merged'.val[1].organisms
                = operands[1].organisms \o operands[2].organisms
          /\ Len(merged'.val[1].organisms)
                = Len(operands[1].organisms) + Len(operands[2].organisms)
          /\ merged'.val[1].queries = operands[1].queries
          /\ merged'.val[1].sequences = operands[1].sequences
          /\ merged'.val[1].params = operands[1].params
          /\ operands' = operands]_vars

\* A Session merged with a copy of itself: two organisms become four.
C2_Witness ==
    /\ merged.ok
    /\ operands[1] = operands[2]
    /\ Len(operands[1].organisms) = 2
    /\ Len(merged.val[1].organisms) = 4
    /\ operands[1].params # <<>>

\* The files whose queries differ from those of the first file.
Incompatible == {j \in 1..Len(files) : files[j].queries # files[1].queries}

\* The organisms of the first n files, in the order of the files.
RECURSIVE OrganismsUpTo(_)
OrganismsUpTo(n) ==
    IF n = 0 THEN <<>>
    ELSE OrganismsUpTo(n - 1)
            \o SessionFromFile(files[n]).val[1].organisms

\* from_files on several files: s holds the files before next, merged from
\* left to right; the call ends at the first file that does not fit the
\* first one, with ValueError and no Session, and reads no file behind it;
\* it returns the merge of all files when there is no such file.
FromFilesFolds ==
    Len(files) > 1 =>
        /\ loader.pc = "loop" =>
              /\ loader.next = loader.loaded + 1
              /\ \A j \in 1..loader.loaded : j \notin Incompatible
              /\ loader.s[1].organisms = OrganismsUpTo(loader.loaded)
              /\ loader.s[1].queries = files[1].queries
        /\ (loader.pc = "done" /\ Incompatible # {}) =>
              /\ loader.result = Raise("ValueError")
              /\ loader.loaded = Min(Incompatible)
        /\ (loader.pc = "done" /\ Incompatible = {}) =>
              /\ loader.result.ok
              /\ loader.loaded = Len(files)
              /\ loader.result.val[1].organisms = OrganismsUpTo(Len(files))

\* C3: a merge of two Sessions whose query lists differ, in content or in
\* order, raises ValueError and leaves both operands as they were; from_files
\* merges from left to right and ends at the first pair that does not fit,
\* with the error and no Session.
C3_MergeFailure ==
    /\ [][(Merging /\ operands[1].queries # operands[2].queries) =>
             /\ merged' = Raise("ValueError")
             /\ operands' = operands]_vars
    /\ []FromFilesFolds

\* Three files, the second of which has the first one's queries in another
\* order: from_files ends there and never reads the third.
C3_Witness ==
    /\ Len(files) = 3
    /\ files[1].queries = <<"q1", "q2">>
    /\ files[2].queries = <<"q2", "q1">>
    /\ loader.pc = "done"
    /\ loader.result = Raise("ValueError")
    /\ loader.loaded = 2

(***************************************************************************)
(* Properties of LoadSpec                                                  *)
(***************************************************************************)
\* The fields of an object, without the identity of the object.
Fields(x) == [f \in (DOMAIN x) \ {"oid"} |-> x[f]]

ClusterFieldsOf(c) ==
    [indices  |-> c.indices,
     score    |-> c.score,
     start    |-> c.start,
     end      |-> c.end,
     subjects |-> [i \in 1..Len(c.subjects) |-> Fields(c.subjects[i])]]

ScaffoldFieldsOf(sc) ==
    [accession |-> sc.accession,
     subjects  |-> [i \in 1..Len(sc.subjects) |-> Fields(sc.subjects[i])],
     clusters  |-> [i \in 1..Len(sc.clusters) |->
                      ClusterFieldsOf(sc.clusters[i])]]

OrganismFieldsOf(o) ==
    [name      |-> o.name,
     strain    |-> o.strain,
     scaffolds |-> [i \in 1..Len(o.scaffolds) |->
                      <<o.scaffolds[i][1], ScaffoldFieldsOf(o.scaffolds[i][2])>>]]

SessionFieldsOf(x) ==
    [queries   |-> x.queries,
     sequences |-> x.sequences,
     params    |-> x.params,
     organisms |-> [i \in 1..Len(x.organisms) |->
                      OrganismFieldsOf(x.organisms[i])]]

\* Every cluster of the Scaffold holds, at each place, the very Subject its
\* index names in the Scaffold's subject list.
IndicesResolve(sc) ==
    \A k \in 1..Len(sc.clusters) :
        /\ Len(sc.clusters[k].indices) = Len(sc.clusters[k].subjects)
        /\ \A i \in 1..Len(sc.clusters[k].subjects) :
              /\ PyInRange(sc.subjects, sc.clusters[k].indices[i])
              /\ PyAt(sc.subjects, sc.clusters[k].indices[i]).oid
                    = sc.clusters[k].subjects[i].oid

\* C1 (as claimed): from_dict of to_dict returns a Session equal to the
\* serialised one field by field (queries, sequences, params, the organisms
\* and scaffolds in their order, subjects, hits, and every cluster's indices,
\* score, start, end and Subjects), the cluster indices resolving to the
\* Subjects of the loaded scaffold.
C1_RoundTrip ==
    session # None =>
        /\ reloaded.ok
        /\ SessionFieldsOf(reloaded.val[1]) = SessionFieldsOf(session[1])
        /\ \A o \in 1..Len(reloaded.val[1].organisms) :
              \A k \in 1..Len(reloaded.val[1].organisms[o].scaffolds) :
                 IndicesResolve(reloaded.val[1].organisms[o].scaffolds[k][2])

\* The indices of the persisted clusters that are no position of the
\* persisted subjects.
BadIndices ==
    {<<k, i>> \in (1..Len(stored[1].clusters)) \X (1..2) :
        /\ i <= Len(stored[1].clusters[k].indices)
        /\ ~(stored[1].clusters[k].indices[i] \in
                0..(Len(stored[1].subjects) - 1))}

\* C6 (as claimed): loading a persisted scaffold fails when a cluster has an
\* index that is no position of the subjects, at or above their number or
\* negative; a scaffold that loads holds no cluster with such an index.
C6_IndexValidity ==
    restored # NoCall =>
        /\ BadIndices # {} => ~restored.ok
        /\ restored.ok =>
              \A k \in 1..Len(restored.val[1].clusters) :
                 \A i \in 1..Len(restored.val[1].clusters[k].indices) :
                    restored.val[1].clusters[k].indices[i]
                       \in 0..(Len(restored.val[1].subjects) - 1)

(***************************************************************************)
(* Properties of NameSpec                                                  *)
(***************************************************************************)
\* The text of an optional str, None reading as "".
TextOf(o) == IF o = None THEN <<>> ELSE o[1]

\* The name the full name starts from: the Organism's, or the placeholder
\* when it has none.
ShownName(o) ==
    IF TextOf(o.name) = <<>> THEN NoOrganismName ELSE TextOf(o.name)

\* C11 (as claimed): full_name is "name strain" when both are present, the
\* bare name when the strain is empty or its text is already contained in
\* the name, and the placeholder name takes the place of an empty name.
C11_FullName ==
    full_name # NoCall =>
        LET o == organism[1]
        IN  full_name.val[1] =
                IF \/ TextOf(o.strain) = <<>>
                   \/ Contains(ShownName(o), TextOf(o.strain))
                THEN ShownName(o)
                ELSE Spaced(ShownName(o), TextOf(o.strain))
(***************************************************************************)
(* Properties of KeySpec                                                   *)
(***************************************************************************)
\* Every dict of the list that d holds under key, if it holds one, has P.
AllUnder(d, key, P(_)) ==
    key \in DOMAIN d => \A i \in 1..Len(d[key]) : P(d[key][i])

HitComplete(d) == HitFields \subseteq DOMAIN d

SubjectComplete(d) ==
    SubjectKeys \subseteq DOMAIN d /\ AllUnder(d, "hits", HitComplete)

ClusterComplete(d) == ClusterFields \subseteq DOMAIN d

ScaffoldComplete(d) ==
    /\ ScaffoldKeys \subseteq DOMAIN d
    /\ AllUnder(d, "subjects", SubjectComplete)
    /\ AllUnder(d, "clusters", ClusterComplete)

OrganismComplete(d) ==
    OrganismKeys \subseteq DOMAIN d /\ AllUnder(d, "scaffolds", ScaffoldComplete)

SessionComplete(d) ==
    SessionKeys \subseteq DOMAIN d /\ AllUnder(d, "organisms", OrganismComplete)

\* C12 (as claimed): Session.from_dict fails on persisted data in which a key
\* of the persisted format is missing at any level, of the Session, an
\* Organism, a Scaffold, a Cluster, a Subject or a Hit; it returns no Session
\* built with a default in the place of the missing key.
C12_MissingKeys ==
    parsed # NoCall => (~SessionComplete(persisted[1]) => ~parsed.ok)
(***************************************************************************)
(* Properties of SortSpec                                                  *)
(***************************************************************************)
Descending(clusters) ==
    \A i, j \in 1..Len(clusters) :
        i < j => clusters[i].score >= clusters[j].score

\* C13 (as claimed): the cluster list of a Scaffold is in descending order
\* of score in every state: as constructed, after every add_clusters call,
\* one that failed part-way included, and as Scaffold.from_dict returns it.
C13_Sortedness ==
    /\ Descending(scaffold.clusters)
    /\ restored.ok => Descending(restored.val[1].clusters)
=============================================================================
